---------------------------- MODULE Spec2Model ----------------------------
(***************************************************************************)
(* Model of multitest.py: the decorators with_combined / with_zipped /     *)
(* with_kwargs and the metaclass MultiTestMeta, whose __new__ replaces     *)
(* every decorated method of a class body by one generated test per        *)
(* parameter combination.                                                  *)
(*                                                                         *)
(* Python strings are sequences of one-character strings, so that pystr    *)
(* and the name synthesis work character by character as the code does.    *)
(***************************************************************************)
EXTENDS Integers, Sequences, FiniteSets, TLC

(***************************************************************************)
(* Characters and strings                                                  *)
(***************************************************************************)

\* The printable ASCII characters, code points 32 .. 126, in order.  The grave
\* accent (96) cannot be written in a TLA+ string; its place is held by "grave".
Ascii ==
  << " ", "!", "\"", "#", "$", "%", "&", "'", "(", ")", "*", "+", ",", "-", ".", "/",
     "0", "1", "2", "3", "4", "5", "6", "7", "8", "9", ":", ";", "<", "=", ">", "?",
     "@", "A", "B", "C", "D", "E", "F", "G", "H", "I", "J", "K", "L", "M", "N", "O",
     "P", "Q", "R", "S", "T", "U", "V", "W", "X", "Y", "Z", "[", "\\", "]", "^", "_",
     "grave", "a", "b", "c", "d", "e", "f", "g", "h", "i", "j", "k", "l", "m", "n", "o",
     "p", "q", "r", "s", "t", "u", "v", "w", "x", "y", "z", "{", "|", "}", "~" >>

Ord(c) == 31 + (CHOOSE i \in 1..Len(Ascii) : Ascii[i] = c)

\* str.isalnum() of one ASCII character
isalnum(c) ==
  LET o == Ord(c) IN (o >= 48 /\ o <= 57) \/ (o >= 65 /\ o <= 90) \/ (o >= 97 /\ o <= 122)

\* s < t in Python's string order
RECURSIVE StrLess(_, _)
StrLess(s, t) ==
  IF t = << >> THEN FALSE
  ELSE IF s = << >> THEN TRUE
  ELSE IF Head(s) = Head(t) THEN StrLess(Tail(s), Tail(t))
  ELSE Ord(Head(s)) < Ord(Head(t))

\* ''.join(parts)
RECURSIVE Concat(_)
Concat(parts) ==
  IF parts = << >> THEN << >> ELSE Head(parts) \o Concat(Tail(parts))

\* sep.join(parts)
RECURSIVE Join(_, _)
Join(sep, parts) ==
  IF parts = << >> THEN << >>
  ELSE IF Len(parts) = 1 THEN parts[1]
  ELSE parts[1] \o sep \o Join(sep, Tail(parts))

\* str(n) of a non-negative int
RECURSIVE Digits(_)
Digits(n) ==
  IF n < 10 THEN << Ascii[17 + n] >> ELSE Digits(n \div 10) \o << Ascii[17 + (n % 10)] >>

\* Python values: ints and strings
IntVal(n) == [t |-> "int", v |-> n]
StrVal(s) == [t |-> "str", v |-> s]

\* str(n) of a value
Str(n) ==
  IF n.t = "int"
    THEN (IF n.v < 0 THEN << "-" >> \o Digits(0 - n.v) ELSE Digits(n.v))
    ELSE n.v

\* AS_WORD
AS_WORD ==
  [c \in {".", "-", "+", "#", "!", "\"", "$", "%", "&", "/", "\\", "=", ",", ";", ":"} |->
     CASE c = "."  -> << "_" >>
       [] c = "-"  -> << "m", "i", "n", "u", "s" >>
       [] c = "+"  -> << "p", "l", "u", "s" >>
       [] c = "#"  -> << "n", "u", "m" >>
       [] c = "!"  -> << "e", "x", "c", "l" >>
       [] c = "\"" -> << "q", "u", "o", "t" >>
       [] c = "$"  -> << "d", "o", "l", "l", "a", "r" >>
       [] c = "%"  -> << "p", "e", "r", "c", "n", "t" >>
       [] c = "&"  -> << "a", "m", "p" >>
       [] c = "/"  -> << "s", "o", "l" >>
       [] c = "\\" -> << "b", "s", "o", "l" >>
       [] c = "="  -> << "e", "q" >>
       [] c = ","  -> << "c", "o", "m", "m", "a" >>
       [] c = ";"  -> << "s", "e", "m", "i" >>
       [] c = ":"  -> << "c", "o", "l", "o", "n" >>]

\* A sanitizer that lets every character through (a faulty variant of pystr).
pystr_passthrough(n) == Str(n)

\* pystr = lambda n: ''.join(x if x.isalnum() else AS_WORD.get(x, '_') for x in str(n))
pystr(n) ==
  LET s == Str(n) IN
  Concat([i \in 1..Len(s) |->
            IF isalnum(s[i]) THEN << s[i] >>
            ELSE IF s[i] \in DOMAIN AS_WORD THEN AS_WORD[s[i]] ELSE << "_" >>])


(***************************************************************************)
(* Dictionaries.  A dict whose iteration order matters (the **kwargs of a  *)
(* decorator) is the sequence of its items <<key, value>> in iteration     *)
(* order; a dict that is only looked up or sorted (test_kwargs, sub_dict)  *)
(* is a function from its keys.                                            *)
(***************************************************************************)
keys(d) == [i \in 1..Len(d) |-> d[i][1]]
values(d) == [i \in 1..Len(d) |-> d[i][2]]

Min(S) == CHOOSE x \in S : \A y \in S : x <= y

\* dict(zip(ks, vs)) for distinct keys ks
DictZip(ks, vs) ==
  LET n == Min({Len(ks), Len(vs)}) IN
  [k \in {ks[i] : i \in 1..n} |-> vs[CHOOSE i \in 1..n : ks[i] = k]]

\* itertools.product(*slots): every combination, the last slot varying fastest
RECURSIVE product(_)
product(slots) ==
  IF slots = << >> THEN << << >> >>
  ELSE LET rest == product(Tail(slots))
           h == Head(slots)
       IN  Concat([i \in 1..Len(h) |-> [j \in 1..Len(rest) |-> << h[i] >> \o rest[j]]])

\* itertools.izip(*slots): stops with the shortest slot; izip() of nothing is empty
izip(slots) ==
  IF slots = << >> THEN << >>
  ELSE [i \in 1..Min({Len(slots[j]) : j \in 1..Len(slots)}) |->
          [j \in 1..Len(slots) |-> slots[j][i]]]

\* A combinator that drops the last combination (a faulty variant of mix_params).
mix_params_short(args, kwargs) ==
  LET all == product(args \o values(kwargs)) IN
  [n \in 1..(Len(all) - 1) |->
     << SubSeq(all[n], 1, Len(args)),
        DictZip(keys(kwargs), SubSeq(all[n], Len(args) + 1, Len(all[n]))) >>]

\* mix_params: the sequence of <<test_args, test_kwargs>> it yields
mix_params(args, kwargs) ==
  LET args_len == Len(args)
      all == product(args \o values(kwargs))
  IN  [n \in 1..Len(all) |->
         << SubSeq(all[n], 1, args_len),
            DictZip(keys(kwargs), SubSeq(all[n], args_len + 1, Len(all[n]))) >>]

\* An element-wise pairing that yields nothing unless all slots have the same
\* length (a variant of zip_params).
zip_params_strict(args, kwargs) ==
  LET slots == args \o values(kwargs)
      zipped_args == izip(args)
      vs == izip(values(kwargs))
      zipped_kwargs == [i \in 1..Len(vs) |-> DictZip(keys(kwargs), vs[i])]
  IN  IF \A i, j \in DOMAIN slots : Len(slots[i]) = Len(slots[j])
        THEN izip(<< zipped_args, zipped_kwargs >>)
        ELSE << >>

\* zip_params: the sequence of <<test_args, test_kwargs>> it yields
zip_params(args, kwargs) ==
  LET zipped_args == izip(args)
      vs == izip(values(kwargs))
      zipped_kwargs == [i \in 1..Len(vs) |-> DictZip(keys(kwargs), vs[i])]
  IN  izip(<< zipped_args, zipped_kwargs >>)

\* kwargs_params: one <<(), k>> per mapping of its single parameter
kwargs_params(list_of_kwargs) ==
  [i \in 1..Len(list_of_kwargs) |-> << << >>, list_of_kwargs[i] >>]

\* The number of parameters each combinator is defined with.
Arity(mix_method) ==
  CASE mix_method = "mix_params" -> 2
    [] mix_method = "zip_params" -> 2
    [] mix_method = "kwargs_params" -> 1

\* The decorators: the combinator and the (args, kwargs) handed to with_
with_combined(args, kwargs) == [mix_method |-> "mix_params", args |-> args, kwargs |-> kwargs]
with_zipped(args, kwargs) == [mix_method |-> "zip_params", args |-> args, kwargs |-> kwargs]
with_kwargs(list_of_kwargs) ==
  [mix_method |-> "kwargs_params", args |-> << >>, kwargs |-> list_of_kwargs]

\* with_ calls mix_method(args, kwargs), with two arguments whatever the combinator:
\* a combinator defined with another number of parameters raises TypeError there.
WithRaises(d) == Arity(d.mix_method) # 2

\* Iterating method._metatest_params
Combinations(gen) ==
  CASE gen.mix_method = "mix_params" -> mix_params(gen.args, gen.kwargs)
    [] gen.mix_method = "zip_params" -> zip_params(gen.args, gen.kwargs)
    [] gen.mix_method = "kwargs_params" -> kwargs_params(gen.kwargs)

(***************************************************************************)
(* Name synthesis and docstring rendering                                  *)
(***************************************************************************)

\* sorted(S) for a set of strings
RECURSIVE Sorted(_)
Sorted(S) ==
  IF S = {} THEN << >>
  ELSE LET m == CHOOSE x \in S : \A y \in S \ {x} : StrLess(x, y)
       IN  << m >> \o Sorted(S \ {m})

\* The candidate name of lines 118-122
CandidateName(name, test_args, test_kwargs) ==
  LET ks == Sorted(DOMAIN test_kwargs)
      has_args == test_args # << >>
      has_kwargs == DOMAIN test_kwargs # {}
  IN  name
      \o (IF has_args \/ has_kwargs THEN << "_" >> ELSE << >>)
      \o Join(<< "_" >>, [i \in 1..Len(test_args) |-> pystr(test_args[i])])
      \o (IF has_args /\ has_kwargs THEN << "_" >> ELSE << >>)
      \o Join(<< "_" >>, [i \in 1..Len(ks) |->
                            pystr(StrVal(ks[i])) \o << "_" >> \o pystr(test_kwargs[ks[i]])])

\* prefix_name + '_' + str(i)
Suffixed(prefix_name, i) == prefix_name \o << "_" >> \o Digits(i)

\* The docstring: None, or a template of literal text and $placeholders.
None == [t |-> "NoneType"]
DocOf(tokens) == [t |-> "str", v |-> tokens]
Lit(s) == [lit |-> s]
Ph(s) == [ph |-> s]

\* sub_dict: arg0, arg1, ... for the positional values, updated with test_kwargs
SubDict(test_args, test_kwargs) ==
  LET argname(num) == << "a", "r", "g" >> \o Digits(num)
      argkeys == {argname(num) : num \in 0..(Len(test_args) - 1)}
  IN  [k \in argkeys \cup DOMAIN test_kwargs |->
         IF k \in DOMAIN test_kwargs THEN test_kwargs[k]
         ELSE test_args[(CHOOSE num \in 0..(Len(test_args) - 1) : argname(num) = k) + 1]]

\* string.Template(doc).safe_substitute(sub_dict) for a docstring that is a string
safe_substitute(doc, sub_dict) ==
  Concat([i \in 1..Len(doc.v) |->
            IF "lit" \in DOMAIN doc.v[i] THEN doc.v[i].lit
            ELSE IF doc.v[i].ph \in DOMAIN sub_dict THEN Str(sub_dict[doc.v[i].ph])
            ELSE << "$" >> \o doc.v[i].ph])


(***************************************************************************)
(* The class bodies explored                                               *)
(***************************************************************************)

\* Longest slot (iterable of parameter values) and longest list of mappings.
MaxLen == 2

test_x == << "t", "e", "s", "t", "_", "x" >>
test_x_1 == << "t", "e", "s", "t", "_", "x", "_", "1" >>
col == << "c", "o", "l" >>
b == << "b" >>

\* Values for positional slots and for named slots.  With the sanitizer they
\* cover a digit, the empty string, a letter and a value made only of symbols.
PosValues == {IntVal(1), StrVal(<< >>)}
NamedValues == {StrVal(<< "a" >>), StrVal(<< "-", ".", "~" >>)}

SeqsUpTo(S, n) == UNION {[1..m -> S] : m \in 0..n}
PosSlots == SeqsUpTo(PosValues, MaxLen)
NamedSlots == SeqsUpTo(NamedValues, MaxLen)

\* Slots of at most one value, for the class bodies with two templates.
UnitPosSlots == {<< >>} \cup {<< v >> : v \in PosValues}
UnitNamedSlots == {<< >>} \cup {<< v >> : v \in NamedValues}

\* (args, kwargs) of a decorator call: up to two axes in all
ArgShapes(pos, named) ==
  LET one == {<< << k, s >> >> : k \in {col, b}, s \in named}
      two == {<< << k1, s1 >>, << k2, s2 >> >> :
                k1 \in {col, b}, k2 \in {col, b}, s1 \in named, s2 \in named}
  IN  {<< << >>, << >> >>}
      \cup {<< << s >>, << >> >> : s \in pos}
      \cup {<< << s1, s2 >>, << >> >> : s1 \in pos, s2 \in pos}
      \cup {<< << >>, d >> : d \in one}
      \cup {<< << s >>, d >> : s \in pos, d \in one}
      \cup {<< << >>, d >> : d \in {e \in two : e[1][1] # e[2][1]}}

\* (args, kwargs) of a decorator call with at most one axis of at most one value
UnitShapes ==
  {<< << >>, << >> >>}
  \cup {<< << s >>, << >> >> : s \in UnitPosSlots}
  \cup {<< << >>, << << col, s >> >> >> : s \in UnitNamedSlots}

\* The complete mappings handed to with_kwargs
Mappings == {DictZip(<< col >>, << v >>) : v \in NamedValues} \cup {DictZip(<< >>, << >>)}

Docstring ==
  DocOf(<< Lit(<< "r", "o", "w", "=" >>), Ph(<< "a", "r", "g", "0" >>),
           Lit(<< " " >>), Ph(col), Lit(<< " " >>), Ph(<< "z" >>) >>)
Docs == {None, Docstring}

Decorators(shapes) ==
  {with_combined(sh[1], sh[2]) : sh \in shapes} \cup {with_zipped(sh[1], sh[2]) : sh \in shapes}

Decl(name, doc, deco) == [name |-> name, doc |-> doc, deco |-> deco]

\* c, c_0, ..., c_(n-1)
Taken(c, n) == {c} \cup {Suffixed(c, i) : i \in 0..(n - 1)}

\* range(1023): the suffixes tried on a collision
SuffixRange == 1023

\* The attributes a class body declares besides its templates: none, or names
\* that a case of test_x collides with.
PlainSets ==
  {{}, {test_x_1}, Taken(test_x_1, 1), {test_x_1, Suffixed(test_x_1, 1)},
   Taken(test_x_1, SuffixRange - 1), Taken(test_x_1, SuffixRange)}

\* Every decorated def of a class body creates its own method object, with its
\* own _metatest_params generator, bound to its own name.

\* One richly parameterised template
SingleBodies ==
  {[plain |-> {}, body |-> << Decl(test_x, doc, deco) >>] :
     doc \in Docs, deco \in Decorators(ArgShapes(PosSlots, NamedSlots))}

\* One template declared with with_kwargs
MappingBodies ==
  {[plain |-> {}, body |-> << Decl(test_x, doc, with_kwargs(l)) >>] :
     doc \in Docs, l \in SeqsUpTo(Mappings, MaxLen)}

\* Two templates whose generated names can meet
PairBodies ==
  {[plain |-> {}, body |-> << Decl(test_x, d1, w1), Decl(test_x_1, d2, w2) >>] :
     d1 \in Docs, d2 \in Docs, w1 \in Decorators(UnitShapes), w2 \in Decorators(UnitShapes)}

\* One template in a class body that already holds colliding names
CrowdedBodies ==
  {[plain |-> p, body |-> << Decl(test_x, Docstring, deco) >>] :
     p \in PlainSets \ {{}}, deco \in Decorators({<< << s >>, << >> >> : s \in PosSlots})}

ClassBodies == SingleBodies \cup MappingBodies \cup PairBodies \cup CrowdedBodies

(***************************************************************************)
(* State                                                                   *)
(***************************************************************************)
VARIABLES
  suite,         \* the class statement being executed: plain attributes and decorated defs
  di,            \* index of the next decorated def of the class body
  attrs,         \* the class namespace: name -> attribute
  marked_tests,  \* __new__'s snapshot: <<name, method>> pairs
  mi,            \* index into marked_tests of the outer loop
  params,        \* what is left of the current method._metatest_params
  actual_name,   \* local of __new__
  prefix_name,   \* local of __new__
  pc,            \* "body", "for_tests", "for_params", "done", "raised"
  exc            \* the exception that ended the class statement

vars == << suite, di, attrs, marked_tests, mi, params, actual_name, prefix_name, pc, exc >>

Unbound == [t |-> "unbound"]
NoException == "none"
DeclTypeError == "TypeError: kwargs_params() takes exactly 1 argument (2 given)"
DocTypeError == "TypeError: expected string or buffer"
NamesRuntimeError == "RuntimeError: 1024 methods with similar name already exist"

Attr == [kind |-> "attr"]
Method(d) == [kind |-> "method", name |-> d.name, doc |-> d.doc, _metatest_params |-> d.deco]
ActualTest(name, me, ar, kw, doc) ==
  [kind |-> "actual_test", name |-> name, me |-> me, ar |-> ar, kw |-> kw, doc |-> doc]

\* attrs[k] = v
SetItem(d, k, v) == [n \in DOMAIN d \cup {k} |-> IF n = k THEN v ELSE d[n]]

\* A deletion that leaves the entry in place (a faulty variant of DelItem).
DelItem_keep(d, k) == d

\* del attrs[k]
DelItem(d, k) == [n \in DOMAIN d \ {k} |-> d[n]]

Init ==
  /\ suite \in ClassBodies
  /\ di = 1
  /\ attrs = [n \in suite.plain |-> Attr]
  /\ marked_tests = << >>
  /\ mi = 1
  /\ params = << >>
  /\ actual_name = Unbound
  /\ prefix_name = Unbound
  /\ pc = "body"
  /\ exc = NoException


(***************************************************************************)
(* Making actual_name unique (lines 124-133)                               *)
(***************************************************************************)

\* A search that stops one suffix early (a faulty variant of UniqueName).
UniqueName_short(names, candidate) ==
  IF candidate \notin names
    THEN [raised |-> FALSE, actual_name |-> candidate, collided |-> FALSE]
  ELSE IF \A i \in 0..(SuffixRange - 2) : Suffixed(candidate, i) \in names
    THEN [raised |-> TRUE, actual_name |-> Suffixed(candidate, SuffixRange - 2),
          collided |-> TRUE]
  ELSE [raised |-> FALSE, collided |-> TRUE,
        actual_name |-> Suffixed(candidate,
           CHOOSE i \in 0..(SuffixRange - 2) :
              /\ Suffixed(candidate, i) \notin names
              /\ \A j \in 0..(i - 1) : Suffixed(candidate, j) \in names)]

\* No search at all: the candidate is used as it is (a faulty variant of UniqueName).
UniqueName_unchecked(names, candidate) ==
  [raised |-> FALSE, actual_name |-> candidate, collided |-> FALSE]

\* The value of actual_name after line 133, whether prefix_name was assigned
\* (collided) and whether the for-else raised, for the names on attrs.
UniqueName(names, candidate) ==
  IF candidate \notin names
    THEN [raised |-> FALSE, actual_name |-> candidate, collided |-> FALSE]
  ELSE IF \A i \in 0..(SuffixRange - 1) : Suffixed(candidate, i) \in names
    THEN [raised |-> TRUE, actual_name |-> Suffixed(candidate, SuffixRange - 1),
          collided |-> TRUE]
  ELSE [raised |-> FALSE, collided |-> TRUE,
        actual_name |-> Suffixed(candidate,
           CHOOSE i \in 0..(SuffixRange - 1) :
              /\ Suffixed(candidate, i) \notin names
              /\ \A j \in 0..(i - 1) : Suffixed(candidate, j) \in names)]

(***************************************************************************)
(* Actions                                                                 *)
(***************************************************************************)

\* A decorated def of the class body: hook_args_kwargs(method) calls
\* mix_method(args, kwargs) and binds the method in the class namespace.
Decorate ==
  /\ pc = "body"
  /\ di <= Len(suite.body)
  /\ LET d == suite.body[di] IN
       IF WithRaises(d.deco)
         THEN /\ pc' = "raised"
              /\ exc' = DeclTypeError
              /\ UNCHANGED << di, attrs >>
         ELSE /\ attrs' = SetItem(attrs, d.name, Method(d))
              /\ di' = di + 1
              /\ UNCHANGED << pc, exc >>
  /\ UNCHANGED << suite, marked_tests, mi, params, actual_name, prefix_name >>

\* The orders attrs.items() can list a set of names in
Orders(S) == {o \in [1..Cardinality(S) -> S] : \A i, j \in DOMAIN o : i # j => o[i] # o[j]}

\* __new__ is entered at the end of the class body and takes its snapshot
\* (lines 104-105), in the order the dict lists its items.
Snapshot ==
  /\ pc = "body"
  /\ di > Len(suite.body)
  /\ \E o \in Orders({n \in DOMAIN attrs : attrs[n].kind = "method"}) :
       marked_tests' = [i \in DOMAIN o |-> << o[i], attrs[o[i]] >>]
  /\ mi' = 1
  /\ pc' = "for_tests"
  /\ UNCHANGED << suite, di, attrs, params, actual_name, prefix_name, exc >>

\* Lines 106-108: the next marked test is removed and its combinations started.
NextTest ==
  /\ pc = "for_tests"
  /\ mi <= Len(marked_tests)
  /\ attrs' = DelItem(attrs, marked_tests[mi][1])
  /\ params' = Combinations(marked_tests[mi][2]._metatest_params)
  /\ pc' = "for_params"
  /\ UNCHANGED << suite, di, marked_tests, mi, actual_name, prefix_name, exc >>

\* Lines 108-137: one combination becomes one generated test.
SpawnCase ==
  /\ pc = "for_params"
  /\ params # << >>
  /\ LET name == marked_tests[mi][1]
         method == marked_tests[mi][2]
         test_args == Head(params)[1]
         test_kwargs == Head(params)[2]
         sub_dict == SubDict(test_args, test_kwargs)
         u == UniqueName(DOMAIN attrs, CandidateName(name, test_args, test_kwargs))
     IN  /\ params' = Tail(params)
         /\ IF method.doc = None
              THEN \* string.Template(None).safe_substitute raises
                   /\ pc' = "raised"
                   /\ exc' = DocTypeError
                   /\ UNCHANGED << attrs, actual_name, prefix_name >>
              ELSE /\ actual_name' = StrVal(u.actual_name)
                   /\ prefix_name' =
                        IF u.collided
                          THEN StrVal(CandidateName(name, test_args, test_kwargs))
                          ELSE prefix_name
                   /\ IF u.raised
                        THEN /\ pc' = "raised"
                             /\ exc' = NamesRuntimeError
                             /\ UNCHANGED attrs
                        ELSE /\ attrs' = SetItem(attrs, u.actual_name,
                                            ActualTest(u.actual_name, name, test_args,
                                               test_kwargs,
                                               safe_substitute(method.doc, sub_dict)))
                             /\ UNCHANGED << pc, exc >>
  /\ UNCHANGED << suite, di, marked_tests, mi >>

\* The combinations of the current marked test are exhausted.
EndParams ==
  /\ pc = "for_params"
  /\ params = << >>
  /\ mi' = mi + 1
  /\ pc' = "for_tests"
  /\ UNCHANGED << suite, di, attrs, marked_tests, params, actual_name, prefix_name, exc >>

\* Line 139: the class is built from attrs.
CreateClass ==
  /\ pc = "for_tests"
  /\ mi > Len(marked_tests)
  /\ pc' = "done"
  /\ UNCHANGED << suite, di, attrs, marked_tests, mi, params, actual_name, prefix_name, exc >>

Next == Decorate \/ Snapshot \/ NextTest \/ SpawnCase \/ EndParams \/ CreateClass

Spec == Init /\ [][Next]_vars


(***************************************************************************)
(* Vocabulary of the properties                                            *)
(***************************************************************************)

\* The names of the generated tests on attrs, and of those spawned from template t
Cases == {n \in DOMAIN attrs : attrs[n].kind = "actual_test"}
CasesOf(t) == {n \in Cases : attrs[n].me = t}

\* The decorator call of the template named t
DecoOf(t) == (CHOOSE i \in DOMAIN suite.body : suite.body[i].name = t)

Marked == {marked_tests[i][1] : i \in DOMAIN marked_tests}
MarkedWith(mix_method) ==
  {t \in Marked : suite.body[DecoOf(t)].deco.mix_method = mix_method}
ArgsOf(t) == suite.body[DecoOf(t)].deco.args
KwargsOf(t) == suite.body[DecoOf(t)].deco.kwargs

\* The class namespace as the class body leaves it, before __new__ runs
BodyAttrs ==
  [n \in suite.plain \cup {suite.body[i].name : i \in DOMAIN suite.body} |->
     IF \E i \in DOMAIN suite.body : suite.body[i].name = n
       THEN Method(suite.body[CHOOSE i \in DOMAIN suite.body : suite.body[i].name = n])
       ELSE Attr]

\* The lengths of the slots of template t, positional then named
SlotLens(t) ==
  [i \in 1..Len(ArgsOf(t)) |-> Len(ArgsOf(t)[i])]
  \o [i \in 1..Len(KwargsOf(t)) |-> Len(KwargsOf(t)[i][2])]

RECURSIVE Times(_)
Times(lens) == IF lens = << >> THEN 1 ELSE Head(lens) * Times(Tail(lens))

\* The case of template t bound to element idx[j] of slot j, if there is one
BoundTo(t, n, idx) ==
  /\ attrs[n].ar = [j \in 1..Len(ArgsOf(t)) |-> ArgsOf(t)[j][idx[j]]]
  /\ DOMAIN attrs[n].kw = {KwargsOf(t)[j][1] : j \in 1..Len(KwargsOf(t))}
  /\ \A j \in 1..Len(KwargsOf(t)) :
       attrs[n].kw[KwargsOf(t)[j][1]] = KwargsOf(t)[j][2][idx[Len(ArgsOf(t)) + j]]

\* Every choice of one index per slot of template t
IndexChoices(t) ==
  LET lens == SlotLens(t) IN
  {idx \in [1..Len(lens) -> 1..MaxLen] : \A j \in 1..Len(lens) : idx[j] <= lens[j]}

\* Letters, digits and the underscore
IdentifierChars ==
  {"_", "0", "1", "2", "3", "4", "5", "6", "7", "8", "9"}
  \cup {"a", "b", "c", "d", "e", "f", "g", "h", "i", "j", "k", "l", "m",
        "n", "o", "p", "q", "r", "s", "t", "u", "v", "w", "x", "y", "z"}
  \cup {"A", "B", "C", "D", "E", "F", "G", "H", "I", "J", "K", "L", "M",
        "N", "O", "P", "Q", "R", "S", "T", "U", "V", "W", "X", "Y", "Z"}

\* __new__ raised (the decorators raise while the class body still runs)
ExpansionFailed == pc = "raised" /\ exc \in {DocTypeError, NamesRuntimeError}

(***************************************************************************)
(* C1                                                                      *)
(***************************************************************************)

\* C1: every step of the expansion that puts a generated case on attrs puts it
\* under a name that was not on attrs, under its own __name__, and leaves every
\* earlier generated case and every declared non-template attribute as it was:
\* no case replaces another entry, so the generated names are pairwise distinct.
C1_FreshNames ==
  [][ /\ \A n \in DOMAIN attrs' :
           (attrs'[n].kind = "actual_test" /\ (n \notin DOMAIN attrs \/ attrs[n] # attrs'[n]))
             => (n \notin DOMAIN attrs /\ attrs'[n].name = n)
      /\ \A n \in DOMAIN attrs :
           attrs[n].kind # "method" => (n \in DOMAIN attrs' /\ attrs'[n] = attrs[n])
      /\ (pc = "for_params" /\ pc' = "for_params")
           => Cardinality({n \in DOMAIN attrs' : attrs'[n].kind = "actual_test"})
                = Cardinality(Cases) + 1 ]_vars

\* A class was created in which a collision was resolved and both of two
\* templates have cases on the final surface.
C1_Witness ==
  /\ pc = "done"
  /\ prefix_name # Unbound
  /\ Len(marked_tests) = 2
  /\ \A t \in Marked : CasesOf(t) # {}

(***************************************************************************)
(* C2                                                                      *)
(***************************************************************************)

\* C2: when the class is created, every with_combined template has exactly
\* l1 * ... * ln cases on the final surface (1 for no axes, 0 if an axis is
\* empty), and every choice of one element per axis is bound by one of them.
C2_CartesianCount ==
  pc = "done" =>
    \A t \in MarkedWith("mix_params") :
      /\ Cardinality(CasesOf(t)) = Times(SlotLens(t))
      /\ \A idx \in IndexChoices(t) : \E n \in CasesOf(t) : BoundTo(t, n, idx)

\* A class was created from a with_combined template with a positional and a
\* named axis of two values each, which has four cases.
C2_Witness ==
  /\ pc = "done"
  /\ \E t \in MarkedWith("mix_params") :
       /\ Len(ArgsOf(t)) = 1 /\ Len(KwargsOf(t)) = 1
       /\ SlotLens(t) = << 2, 2 >>
       /\ Cardinality(CasesOf(t)) = 4

(***************************************************************************)
(* C3                                                                      *)
(***************************************************************************)

\* All slots of template t have the same length
EqualLens(t) == \A i, j \in DOMAIN SlotLens(t) : SlotLens(t)[i] = SlotLens(t)[j]

\* C3: when the class is created, every with_zipped template with at least one
\* slot whose slots all have length k has exactly k cases, case i bound to
\* element i of every slot.
C3_ZippedCount ==
  pc = "done" =>
    \A t \in MarkedWith("zip_params") :
      (SlotLens(t) # << >> /\ EqualLens(t)) =>
        /\ Cardinality(CasesOf(t)) = SlotLens(t)[1]
        /\ \A i \in 1..SlotLens(t)[1] :
             \E n \in CasesOf(t) : BoundTo(t, n, [j \in DOMAIN SlotLens(t) |-> i])

(***************************************************************************)
(* C4                                                                      *)
(***************************************************************************)

Mismatched(t) == ~EqualLens(t)

\* C4 as claimed: a with_zipped template whose slots differ in length gets no
\* case at all, and no class is created from a class body that holds one.
C4_MismatchRejected ==
  /\ \A t \in MarkedWith("zip_params") : Mismatched(t) => CasesOf(t) = {}
  /\ pc = "done" => \A t \in MarkedWith("zip_params") : ~Mismatched(t)

\* The number of combinations zip() semantics leaves of template t
ShortestOrNone(t) ==
  IF ArgsOf(t) = << >> \/ KwargsOf(t) = << >> THEN 0
  ELSE Min({SlotLens(t)[i] : i \in DOMAIN SlotLens(t)})

\* C4 as amended: a with_zipped template whose slots differ in length is
\* enumerated without error and truncated to its shortest slot: while it is
\* being expanded its cases and its remaining combinations add up to the
\* length of the shortest slot (none if it has no positional or no named
\* slot), and in the created class it has exactly that many cases, case i
\* bound to element i of every slot.
C4_MismatchTruncated ==
  /\ pc = "for_params" =>
       LET t == marked_tests[mi][1] IN
       (t \in MarkedWith("zip_params") /\ Mismatched(t)) =>
          Cardinality(CasesOf(t)) + Len(params) = ShortestOrNone(t)
  /\ pc = "done" =>
       \A t \in MarkedWith("zip_params") :
         Mismatched(t) =>
           /\ Cardinality(CasesOf(t)) = ShortestOrNone(t)
           /\ \A i \in 1..ShortestOrNone(t) :
                \E n \in CasesOf(t) : BoundTo(t, n, [j \in DOMAIN SlotLens(t) |-> i])

\* A class was created from a with_zipped template with slots of lengths 2
\* and 1, which has one case.
C4_Witness ==
  /\ pc = "done"
  /\ \E t \in MarkedWith("zip_params") :
       /\ Mismatched(t)
       /\ ArgsOf(t) # << >> /\ KwargsOf(t) # << >>
       /\ Cardinality(CasesOf(t)) = 1


(***************************************************************************)
(* C5                                                                      *)
(***************************************************************************)

\* The with_kwargs templates of the class body, and the mappings of each
MappingDecls == {i \in DOMAIN suite.body : suite.body[i].deco.mix_method = "kwargs_params"}

\* C5: declaring a template with with_kwargs does not raise, and when the class
\* is created the template has one case per mapping, each with no positional
\* values and that mapping as its named values.
C5_ExplicitList ==
  /\ exc # DeclTypeError
  /\ pc = "done" =>
       \A i \in MappingDecls :
         LET t == suite.body[i].name
             l == suite.body[i].deco.kwargs
         IN  /\ Cardinality(CasesOf(t)) = Len(l)
             /\ \A m \in 1..Len(l) :
                  \E n \in CasesOf(t) : attrs[n].ar = << >> /\ attrs[n].kw = l[m]

(***************************************************************************)
(* C6                                                                      *)
(***************************************************************************)

\* C6 as claimed: in the created class no template's original name is a key
\* of the final surface.
C6_TemplateNameAbsent ==
  pc = "done" => \A t \in Marked : t \notin DOMAIN attrs

\* C6 as amended: in the created class no template method is left on the final
\* surface; what a template's original name holds, if anything, is a generated
\* case: the template's own case for the empty combination (whose name is the
\* bare template name), or a case of a template processed after it.
C6_TemplateRemoved ==
  pc = "done" =>
    /\ \A n \in DOMAIN attrs : attrs[n].kind # "method"
    /\ \A i \in DOMAIN marked_tests :
         LET t == marked_tests[i][1] IN
         t \in DOMAIN attrs =>
           /\ attrs[t].kind = "actual_test"
           /\ \/ attrs[t].me = t /\ attrs[t].ar = << >> /\ DOMAIN attrs[t].kw = {}
              \/ \E j \in DOMAIN marked_tests : j > i /\ attrs[t].me = marked_tests[j][1]

\* A class was created in which one template's original name holds the case of
\* another template.
C6_Witness ==
  /\ pc = "done"
  /\ \E t \in Marked : t \in DOMAIN attrs /\ attrs[t].me # t

(***************************************************************************)
(* C7                                                                      *)
(***************************************************************************)

\* C7 as claimed: when __new__ raises, attrs is as the class body left it.
C7_AllOrNothing ==
  ExpansionFailed => attrs = BodyAttrs

\* C7 as amended: when __new__ raises no class is created, and attrs is left
\* partly expanded: every template the loop has reached (the failing one
\* included) is removed, the cases inserted before the failure stay, the
\* templates not yet reached and the other attributes are untouched; so attrs
\* is never as the class body left it.
C7_PartialOnFailure ==
  ExpansionFailed =>
    /\ ~ ENABLED CreateClass
    /\ \A i \in DOMAIN marked_tests :
         LET t == marked_tests[i][1] IN
         IF i <= mi
           THEN t \in DOMAIN attrs => attrs[t].kind = "actual_test"
           ELSE t \in DOMAIN attrs /\ attrs[t] = marked_tests[i][2]
    /\ \A n \in suite.plain : n \in DOMAIN attrs /\ attrs[n] = Attr
    /\ DOMAIN attrs = (DOMAIN BodyAttrs \ {marked_tests[i][1] : i \in 1..mi}) \cup Cases
    /\ attrs # BodyAttrs

\* __new__ raised after it had inserted a case of an earlier template.
C7_Witness ==
  /\ ExpansionFailed
  /\ mi = 2
  /\ CasesOf(marked_tests[1][1]) # {}

(***************************************************************************)
(* C8                                                                      *)
(***************************************************************************)

\* C8: the name of every generated case is the original name of its template
\* followed only by letters, digits and underscores.
C8_IdentifierNames ==
  \A n \in Cases :
    LET t == attrs[n].me IN
    /\ Len(n) >= Len(t)
    /\ SubSeq(n, 1, Len(t)) = t
    /\ \A i \in (Len(t) + 1)..Len(n) : n[i] \in IdentifierChars

\* A case was generated from the empty string, and one from a value made only
\* of symbols.
C8_Witness ==
  /\ \E n \in Cases : \E i \in DOMAIN attrs[n].ar : attrs[n].ar[i] = StrVal(<< >>)
  /\ \E n \in Cases : \E k \in DOMAIN attrs[n].kw :
       attrs[n].kw[k] = StrVal(<< "-", ".", "~" >>)

(***************************************************************************)
(* C9                                                                      *)
(***************************************************************************)

\* C9: expanding a template without a docstring never raises, and when the
\* class is created a with_combined template without a docstring has a case
\* for every combination.
C9_NoDocstring ==
  /\ exc # DocTypeError
  /\ pc = "done" =>
       \A t \in MarkedWith("mix_params") :
         suite.body[DecoOf(t)].doc = None =>
           Cardinality(CasesOf(t)) = Times(SlotLens(t))

(***************************************************************************)
(* C10                                                                     *)
(***************************************************************************)

\* C10 as claimed: the name-exhausted error is raised only when the candidate
\* and every one of its suffixes _0 .. _1023 are on attrs.
C10_Suffixes1024 ==
  exc = NamesRuntimeError =>
    /\ prefix_name.v \in DOMAIN attrs
    /\ \A i \in 0..1023 : Suffixed(prefix_name.v, i) \in DOMAIN attrs

\* C10 as amended: a combination whose candidate name c is free is inserted as
\* c; when c is taken it is inserted as c_i for the smallest i in 0 .. 1022 with
\* c_i free; the name-exhausted error is raised, and nothing inserted, exactly
\* when c and every one of the 1023 suffixes c_0 .. c_1022 are taken.
C10_Suffixes1023 ==
  [][ (pc = "for_params" /\ params # << >> /\ marked_tests[mi][2].doc # None) =>
        LET c == CandidateName(marked_tests[mi][1], Head(params)[1], Head(params)[2])
            taken(i) == Suffixed(c, i) \in DOMAIN attrs
            inserted(n) ==
              /\ exc' = NoException
              /\ DOMAIN attrs' = DOMAIN attrs \cup {n}
              /\ attrs'[n].kind = "actual_test"
              /\ attrs'[n].name = n
              /\ attrs'[n].ar = Head(params)[1]
              /\ attrs'[n].kw = Head(params)[2]
        IN  IF c \notin DOMAIN attrs THEN inserted(c)
            ELSE IF \A i \in 0..1022 : taken(i)
              THEN exc' = NamesRuntimeError /\ attrs' = attrs
            ELSE \E i \in 0..1022 :
                   /\ ~ taken(i)
                   /\ \A j \in 0..(i - 1) : taken(j)
                   /\ inserted(Suffixed(c, i)) ]_vars

\* A case was inserted under the last suffix of the search, c_1022.
C10_Witness ==
  /\ exc = NoException
  /\ actual_name = StrVal(Suffixed(test_x_1, 1022))
  /\ Suffixed(test_x_1, 1022) \in Cases

=============================================================================
